---- MODULE Spec2Model ----
(***************************************************************************)
(* Model of streamlit_app.py: the Zerodha Kite login block, the candle     *)
(* classifier check_conditions, the SQLite signal log written by           *)
(* record_signal, and the "Check Signal" handler that chains them.         *)
(*                                                                         *)
(* A Streamlit script is executed top to bottom on every page load and on  *)
(* every widget interaction of a browser session; pc[s] is the position of *)
(* the running script of session s in the part of the file that concerns   *)
(* the trading signals (lines 47-158). The GDP charts (lines 19-44 and     *)
(* 160-236) touch none of this state and are left out.                     *)
(*                                                                         *)
(* Sessions run side by side, each in its own thread with its own          *)
(* st.session_state, its own module globals and its own page; they share   *)
(* the file trade_signals.db. A step of the model is one statement of one  *)
(* session; SQLite makes each statement on the file atomic.                *)
(***************************************************************************)
EXTENDS Integers, Sequences, FiniteSets, TLC

VARIABLES
    pc,             \* per session: position of the script run; "idle" between two runs
    token,          \* per session: 'access_token' in st.session_state
    reqToken,       \* per session: 'request_token' in the query parameters of the page URL
    clicked,        \* per session: value of st.button("Check Signal") in this run
    buttonRendered, \* per session: the Check Signal button is on the page
    df,             \* per session: the DataFrame returned by fetch_candle_data
    signal,         \* per session: the label returned by check_conditions
    messages,       \* per session: what this run has written to the page, in order
    history_df,     \* per session: the DataFrame read by pd.read_sql, if read
    history,        \* per session: the Signal History dataframe on the page, if drawn
    tableExists,    \* trade_signals.db holds a table named signals
    log             \* the rows of table signals, in rowid order

vars == <<pc, token, reqToken, clicked, buttonRendered, df, signal,
          messages, history_df, history, tableExists, log>>

-----------------------------------------------------------------------------
(* Bounds of the model.                                                    *)

\* browser sessions (tabs) open on the application
MaxSessions == 2
\* prices are 1..MaxPrice; check_conditions only compares them for equality
MaxPrice == 3
\* an answer of the data source has at most MaxBars rows
MaxBars == 1
\* the log is not grown beyond MaxLog rows
MaxLog == 2
\* the local time of an insert, to the second, is one of 0..MaxClock
MaxClock == 1

(* fetch_candle_data asks for the candles from date to date + 15 minutes   *)
(* at the 15 minute interval: the candle that starts at date and the one   *)
(* that starts at to_date. The frames check_conditions is checked on have  *)
(* up to that many rows.                                                   *)
CandleMinutes == 15
WindowMinutes == 15
MaxRows == (WindowMinutes \div CandleMinutes) + 1

Sessions == 1..MaxSessions

Prices == 1..MaxPrice
\* datetime.now().strftime("%Y-%m-%d %H:%M:%S"): the second of the insert; two
\* inserts fall in the same second or in different ones
Timestamps == 0..MaxClock

Labels == {"BUY", "SELL", "HOLD", "No Data"}
\* signal before check_conditions has run
None == "None"

\* a row of the DataFrame built from kite.historical_data: line 95 takes the
\* four prices as they come, whatever their order
Rows == [open : Prices, high : Prices, low : Prices, close : Prices]

RECURSIVE SeqsUpTo(_, _)
SeqsUpTo(S, n) ==
    IF n = 0 THEN {<<>>}
    ELSE LET shorter == SeqsUpTo(S, n - 1)
         IN  shorter \cup {Append(s, x) : s \in shorter, x \in S}

\* every DataFrame of at most MaxRows rows: the inputs of check_conditions
Frames == SeqsUpTo(Rows, MaxRows)

\* the answers of kite.historical_data that are tried in the script runs: any
\* rows at all, among them rows no exchange would quote (high below low)
Answers == SeqsUpTo(Rows, MaxBars)

\* pd.DataFrame(): the frame with no rows
EmptyFrame == <<>>

-----------------------------------------------------------------------------
(* Page output.                                                            *)

Msg(kind, text, arg) == [kind |-> kind, text |-> text, arg |-> arg]

LoginPrompt      == Msg("sidebar", "Login to Zerodha Kite", "")
LoggedInNote     == Msg("sidebar", "You are logged in!", "")
AuthSuccessMsg   == Msg("success", "Authentication successful!", "")
AuthErrorMsg     == Msg("error", "Error generating session", "")
FetchErrorMsg    == Msg("error", "Error fetching candle data", "")
SignalMsg(s)     == Msg("success", "Signal", s)
RecordException  == Msg("exception", "record_signal", "")
HistoryException == Msg("exception", "read_sql", "")

\* message m is on the page of session s
Shown(s, m) == \E i \in 1..Len(messages[s]) : messages[s][i] = m


-----------------------------------------------------------------------------
(* check_conditions (lines 100-123).                                       *)

open_price(d) == d[1].open          \* df["open"].iloc[0]
high_price(d) == d[1].high          \* df["high"].iloc[0]
low_price(d)  == d[1].low           \* df["low"].iloc[0]
prev_close(d) == d[Len(d)].close    \* df["close"].iloc[-1]

\* the label each return statement of check_conditions returns, by line
ReturnValue_holdAt117(line) ==
    CASE line = 102 -> "No Data"
      [] line = 111 -> "BUY"
      [] line = 113 -> "BUY"
      [] line = 115 -> "SELL"
      [] line = 117 -> "HOLD"
      [] line = 119 -> "SELL"
      [] line = 121 -> "BUY"
      [] line = 123 -> "HOLD"

ReturnValue(line) ==
    CASE line = 102 -> "No Data"
      [] line = 111 -> "BUY"
      [] line = 113 -> "BUY"
      [] line = 115 -> "SELL"
      [] line = 117 -> "SELL"
      [] line = 119 -> "SELL"
      [] line = 121 -> "BUY"
      [] line = 123 -> "HOLD"

\* mutant: open == high is tested before the open == low rules
ReturnLine_sellFirst(d) ==
    IF d = EmptyFrame THEN 102
    ELSE IF open_price(d) = high_price(d) THEN 117
    ELSE IF open_price(d) = low_price(d) /\ prev_close(d) = open_price(d) THEN 111
    ELSE IF open_price(d) = low_price(d) THEN 113
    ELSE IF prev_close(d) = high_price(d) THEN 115
    ELSE IF prev_close(d) = open_price(d) /\ open_price(d) = high_price(d) THEN 119
    ELSE IF low_price(d) = prev_close(d) THEN 121
    ELSE 123

\* mutant: low == prev_close is tested before the SELL rules
ReturnLine_lowFirst(d) ==
    IF d = EmptyFrame THEN 102
    ELSE IF open_price(d) = low_price(d) /\ prev_close(d) = open_price(d) THEN 111
    ELSE IF open_price(d) = low_price(d) THEN 113
    ELSE IF low_price(d) = prev_close(d) THEN 121
    ELSE IF prev_close(d) = high_price(d) THEN 115
    ELSE IF open_price(d) = high_price(d) THEN 117
    ELSE IF prev_close(d) = open_price(d) /\ open_price(d) = high_price(d) THEN 119
    ELSE 123

\* mutant: an empty frame is not told apart and falls through to the last branch
ReturnLine_noEmptyTest(d) ==
    IF d = EmptyFrame THEN 123
    ELSE IF open_price(d) = low_price(d) /\ prev_close(d) = open_price(d) THEN 111
    ELSE IF open_price(d) = low_price(d) THEN 113
    ELSE IF prev_close(d) = high_price(d) THEN 115
    ELSE IF open_price(d) = high_price(d) THEN 117
    ELSE IF prev_close(d) = open_price(d) /\ open_price(d) = high_price(d) THEN 119
    ELSE IF low_price(d) = prev_close(d) THEN 121
    ELSE 123

\* mutant: the conjunction of line 118 is tested before the rules it overlaps
ReturnLine_conjunctionFirst(d) ==
    IF d = EmptyFrame THEN 102
    ELSE IF open_price(d) = low_price(d) /\ prev_close(d) = open_price(d) THEN 111
    ELSE IF open_price(d) = low_price(d) THEN 113
    ELSE IF prev_close(d) = open_price(d) /\ open_price(d) = high_price(d) THEN 119
    ELSE IF prev_close(d) = high_price(d) THEN 115
    ELSE IF open_price(d) = high_price(d) THEN 117
    ELSE IF low_price(d) = prev_close(d) THEN 121
    ELSE 123

\* the line of the return statement check_conditions(d) leaves by
ReturnLine(d) ==
    IF d = EmptyFrame THEN 102                                  \* df.empty
    ELSE IF open_price(d) = low_price(d) /\ prev_close(d) = open_price(d) THEN 111
    ELSE IF open_price(d) = low_price(d) THEN 113
    ELSE IF prev_close(d) = high_price(d) THEN 115
    ELSE IF open_price(d) = high_price(d) THEN 117
    ELSE IF prev_close(d) = open_price(d) /\ open_price(d) = high_price(d) THEN 119
    ELSE IF low_price(d) = prev_close(d) THEN 121
    ELSE 123

check_conditions(d) == ReturnValue(ReturnLine(d))

-----------------------------------------------------------------------------
(* One run of the script, in session s.                                    *)

\* the script has ended or was stopped by an exception: its locals are gone
EndOfRun(s) ==
    /\ pc' = [pc EXCEPT ![s] = "idle"]
    /\ clicked' = [clicked EXCEPT ![s] = FALSE]
    /\ df' = [df EXCEPT ![s] = EmptyFrame]
    /\ signal' = [signal EXCEPT ![s] = None]
    /\ history_df' = [history_df EXCEPT ![s] = <<>>]

\* the browser tab loads the page anew, with or without the request_token
\* Kite appends to the redirect URL: a new session, with an empty
\* st.session_state, takes the place of the one the tab had. The other
\* sessions go on as they are, in the middle of a run or not.
PageLoad(s, q) ==
    /\ pc[s] = "idle"
    /\ pc' = [pc EXCEPT ![s] = "auth"]
    /\ token' = [token EXCEPT ![s] = FALSE]
    /\ reqToken' = [reqToken EXCEPT ![s] = q]
    /\ clicked' = [clicked EXCEPT ![s] = FALSE]
    /\ buttonRendered' = [buttonRendered EXCEPT ![s] = FALSE]
    /\ messages' = [messages EXCEPT ![s] = <<>>]
    /\ history' = [history EXCEPT ![s] = <<>>]
    /\ UNCHANGED <<df, signal, history_df, tableExists, log>>

\* the Check Signal runs of the other sessions that have not yet come to the
\* end of record_signal
PendingAppends(s) ==
    Cardinality({u \in Sessions \ {s} :
        clicked[u] /\ pc[u] \in {"auth", "trading", "fetch", "classify",
                                 "record", "insert"}})

\* the script of session s starts again from line 1 for a widget interaction,
\* with the button's value True when the interaction was a click on the
\* button. What the last run drew stays on the page until this run draws over
\* it. (The test on MaxLog keeps the log of the model finite.)
StartRun(s, c) ==
    /\ c => buttonRendered[s] /\ Len(log) + PendingAppends(s) < MaxLog
    /\ pc' = [pc EXCEPT ![s] = "auth"]
    /\ clicked' = [clicked EXCEPT ![s] = c]
    /\ df' = [df EXCEPT ![s] = EmptyFrame]
    /\ signal' = [signal EXCEPT ![s] = None]
    /\ history_df' = [history_df EXCEPT ![s] = <<>>]
    /\ messages' = [messages EXCEPT ![s] = <<>>]
    /\ history' = [history EXCEPT ![s] = <<>>]

\* a widget interaction after the script has ended
Rerun(s, c) ==
    /\ pc[s] = "idle"
    /\ StartRun(s, c)
    /\ UNCHANGED <<token, reqToken, buttonRendered, tableExists, log>>

\* the positions from which the next thing the script does can be a call of
\* st: lines 70 or 80, 136, 147 (or 97), 151, 154, 158, and, inside
\* record_signal (lines 126-131), the exit of "with st.spinner" of line 147,
\* which clears the spinner when an sqlite3 error leaves the block
AtStCall(s) ==
    pc[s] \in {"auth", "trading", "fetch", "record", "insert", "show",
              "history", "draw"}

\* a widget interaction while the script runs: Streamlit raises its rerun
\* exception from the next call of st, which no "except Exception" catches,
\* and starts the script again. Nothing of the interrupted statement is done.
\* Inside record_signal the call of st is met only when sqlite3 raises: the
\* rerun exception takes the place of the sqlite3 error, which is not shown.
Interrupt(s, c) ==
    /\ AtStCall(s)
    /\ StartRun(s, c)
    /\ UNCHANGED <<token, reqToken, buttonRendered, tableExists, log>>

\* the same at st.success of line 60: get_access_token has stored the token
\* at line 59
InterruptAuthSuccess(s, c) ==
    /\ pc[s] = "auth" /\ ~token[s] /\ reqToken[s]
    /\ token' = [token EXCEPT ![s] = TRUE]
    /\ StartRun(s, c)
    /\ UNCHANGED <<reqToken, buttonRendered, tableExists, log>>

\* lines 68-72 without a request_token in the URL: the login link only
AuthLoginPrompt(s) ==
    /\ pc[s] = "auth" /\ ~token[s] /\ ~reqToken[s]
    /\ messages' = [messages EXCEPT ![s] = Append(@, LoginPrompt)]
    /\ pc' = [pc EXCEPT ![s] = "trading"]
    /\ UNCHANGED <<history_df, token, reqToken, clicked, buttonRendered, df, signal,
                   tableExists, log, history>>

\* get_access_token, lines 57-60: generate_session succeeds
AuthSuccess(s) ==
    /\ pc[s] = "auth" /\ ~token[s] /\ reqToken[s]
    /\ token' = [token EXCEPT ![s] = TRUE]
    /\ messages' = [messages EXCEPT ![s] = @ \o <<LoginPrompt, AuthSuccessMsg>>]
    /\ pc' = [pc EXCEPT ![s] = "trading"]
    /\ UNCHANGED <<history_df, reqToken, clicked, buttonRendered, df, signal,
                   tableExists, log, history>>

\* get_access_token, lines 61-62: generate_session raises
AuthError(s) ==
    /\ pc[s] = "auth" /\ ~token[s] /\ reqToken[s]
    /\ messages' = [messages EXCEPT ![s] = @ \o <<LoginPrompt, AuthErrorMsg>>]
    /\ pc' = [pc EXCEPT ![s] = "trading"]
    /\ UNCHANGED <<history_df, token, reqToken, clicked, buttonRendered, df, signal,
                   tableExists, log, history>>

\* lines 79-80
AuthLoggedIn(s) ==
    /\ pc[s] = "auth" /\ token[s]
    /\ messages' = [messages EXCEPT ![s] = Append(@, LoggedInNote)]
    /\ pc' = [pc EXCEPT ![s] = "trading"]
    /\ UNCHANGED <<history_df, token, reqToken, clicked, buttonRendered, df, signal,
                   tableExists, log, history>>

\* mutant: the Trading Signals section is drawn whether or not a token is held
TradingSection_noTokenTest(s) ==
    /\ pc[s] = "trading"
    /\ buttonRendered' = [buttonRendered EXCEPT ![s] = TRUE]
    /\ pc' = [pc EXCEPT ![s] = IF clicked[s] THEN "fetch" ELSE "history"]
    /\ UNCHANGED <<history_df, token, reqToken, clicked, df, signal, tableExists, log,
                   messages, history>>

\* lines 135-146: the section and its button exist only with a token
TradingSection(s) ==
    /\ pc[s] = "trading"
    /\ IF token[s]
       THEN /\ buttonRendered' = [buttonRendered EXCEPT ![s] = TRUE]
            /\ pc' = [pc EXCEPT ![s] = IF clicked[s] THEN "fetch" ELSE "history"]
            /\ UNCHANGED <<clicked, df, signal, history_df>>
       ELSE /\ EndOfRun(s)
            /\ UNCHANGED buttonRendered
    /\ UNCHANGED <<token, reqToken, tableExists, log, messages, history>>

\* fetch_candle_data, lines 88-95: historical_data answers with zero or more
\* rows, which line 95 puts in a DataFrame as they are. Whether the Kite
\* server answers at all is its own affair: line 53 builds a new client on
\* every run, and only get_access_token gives a client the token, so both
\* outcomes of the call are kept possible here.
FetchOk(s) ==
    /\ pc[s] = "fetch"
    /\ \E d \in Answers : df' = [df EXCEPT ![s] = d]
    /\ pc' = [pc EXCEPT ![s] = "classify"]
    /\ UNCHANGED <<history_df, token, reqToken, clicked, buttonRendered, signal,
                   tableExists, log, messages, history>>

\* mutant: the error is reported and the handler is left
FetchError_abort(s) ==
    /\ pc[s] = "fetch"
    /\ messages' = [messages EXCEPT ![s] = Append(@, FetchErrorMsg)]
    /\ EndOfRun(s)
    /\ UNCHANGED <<token, reqToken, buttonRendered, tableExists, log, history>>

\* fetch_candle_data, lines 96-98: historical_data raises; the error is
\* written to the page and an empty DataFrame is returned to the caller
FetchError(s) ==
    /\ pc[s] = "fetch"
    /\ messages' = [messages EXCEPT ![s] = Append(@, FetchErrorMsg)]
    /\ df' = [df EXCEPT ![s] = EmptyFrame]
    /\ pc' = [pc EXCEPT ![s] = "classify"]
    /\ UNCHANGED <<history_df, token, reqToken, clicked, buttonRendered, signal,
                   tableExists, log, history>>

\* line 149
Classify(s) ==
    /\ pc[s] = "classify"
    /\ signal' = [signal EXCEPT ![s] = check_conditions(df[s])]
    /\ pc' = [pc EXCEPT ![s] = "record"]
    /\ UNCHANGED <<history_df, token, reqToken, clicked, buttonRendered, df,
                   tableExists, log, messages, history>>

\* the row record_signal inserts at second t
Row(t, l) == [timestamp |-> t, signal |-> l]

\* mutant: the new row is stored in place of the newest one
Insert_replaceLast(rows, r) ==
    IF rows = <<>> THEN <<r>> ELSE [rows EXCEPT ![Len(rows)] = r]

\* INSERT INTO signals VALUES (?, ?): the row gets the next rowid
Insert(rows, r) == Append(rows, r)

\* record_signal, lines 126-129: the database is opened and the table is
\* created if it is not there; the CREATE is committed as it is executed
CreateTable(s) ==
    /\ pc[s] = "record"
    /\ tableExists' = TRUE
    /\ pc' = [pc EXCEPT ![s] = "insert"]
    /\ UNCHANGED <<history_df, token, reqToken, clicked, buttonRendered, df, signal,
                   log, messages, history>>

\* record_signal, lines 126-129, with the database unavailable: sqlite3
\* raises, nothing catches it, Streamlit prints the exception and stops the
\* script
CreateTableError(s) ==
    /\ pc[s] = "record"
    /\ messages' = [messages EXCEPT ![s] = Append(@, RecordException)]
    /\ EndOfRun(s)
    /\ UNCHANGED <<token, reqToken, buttonRendered, tableExists, log, history>>

\* record_signal, lines 130-132: the row is inserted and committed at second t
InsertRow(s, t) ==
    /\ pc[s] = "insert"
    /\ log' = Insert(log, Row(t, signal[s]))
    /\ pc' = [pc EXCEPT ![s] = "show"]
    /\ UNCHANGED <<history_df, token, reqToken, clicked, buttonRendered, df, signal,
                   tableExists, messages, history>>

\* mutant: the database error is caught and the handler goes on
InsertError_swallowed(s) ==
    /\ pc[s] = "insert"
    /\ messages' = [messages EXCEPT ![s] = Append(@, RecordException)]
    /\ pc' = [pc EXCEPT ![s] = "show"]
    /\ UNCHANGED <<history_df, token, reqToken, clicked, buttonRendered, df, signal,
                   tableExists, log, history>>

\* record_signal, lines 130-131, with the database no longer writable (disk
\* full, database locked by another session): the INSERT or the commit raises
\* and the script stops; the table of line 128 stays, without the row
InsertError(s) ==
    /\ pc[s] = "insert"
    /\ messages' = [messages EXCEPT ![s] = Append(@, RecordException)]
    /\ EndOfRun(s)
    /\ UNCHANGED <<token, reqToken, buttonRendered, tableExists, log, history>>

\* mutant: the label is shown twice
ShowSignal_twice(s) ==
    /\ pc[s] = "show"
    /\ messages' = [messages EXCEPT
                      ![s] = @ \o <<SignalMsg(signal[s]), SignalMsg(signal[s])>>]
    /\ pc' = [pc EXCEPT ![s] = "history"]
    /\ UNCHANGED <<history_df, token, reqToken, clicked, buttonRendered, df, signal,
                   tableExists, log, history>>

\* line 151
ShowSignal(s) ==
    /\ pc[s] = "show"
    /\ messages' = [messages EXCEPT ![s] = Append(@, SignalMsg(signal[s]))]
    /\ pc' = [pc EXCEPT ![s] = "history"]
    /\ UNCHANGED <<history_df, token, reqToken, clicked, buttonRendered, df, signal,
                   tableExists, log, history>>

\* SELECT * FROM signals: the rows in rowid order
SelectAll(rows) == rows

\* lines 154-157 with the table readable: the rows are read, with those the
\* other sessions have committed so far
ReadHistory(s) ==
    /\ pc[s] = "history"
    /\ tableExists
    /\ history_df' = [history_df EXCEPT ![s] = <<SelectAll(log)>>]
    /\ pc' = [pc EXCEPT ![s] = "draw"]
    /\ UNCHANGED <<token, reqToken, clicked, buttonRendered, df, signal,
                   tableExists, log, messages, history>>

\* lines 154-157 when read_sql raises: the database is unavailable, or no
\* record_signal has created the table yet
HistoryError(s) ==
    /\ pc[s] = "history"
    /\ messages' = [messages EXCEPT ![s] = Append(@, HistoryException)]
    /\ EndOfRun(s)
    /\ UNCHANGED <<token, reqToken, buttonRendered, tableExists, log, history>>

\* line 158: the rows that were read are drawn, whatever the table holds by
\* now, and the script ends
DrawHistory(s) ==
    /\ pc[s] = "draw"
    /\ history' = [history EXCEPT ![s] = history_df[s]]
    /\ EndOfRun(s)
    /\ UNCHANGED <<token, reqToken, buttonRendered, tableExists, log, messages>>

-----------------------------------------------------------------------------
(* The application.                                                        *)

\* a fresh deployment; the first run of each session is about to start
Init ==
    /\ pc = [s \in Sessions |-> "auth"]
    /\ token = [s \in Sessions |-> FALSE]
    /\ reqToken \in [Sessions -> BOOLEAN]
    /\ clicked = [s \in Sessions |-> FALSE]
    /\ buttonRendered = [s \in Sessions |-> FALSE]
    /\ df = [s \in Sessions |-> EmptyFrame]
    /\ signal = [s \in Sessions |-> None]
    /\ messages = [s \in Sessions |-> <<>>]
    /\ history_df = [s \in Sessions |-> <<>>]
    /\ history = [s \in Sessions |-> <<>>]
    /\ tableExists = FALSE
    /\ log = <<>>

Next ==
    \/ \E s \in Sessions, q \in BOOLEAN : PageLoad(s, q)
    \/ \E s \in Sessions, c \in BOOLEAN : Rerun(s, c)
    \/ \E s \in Sessions, c \in BOOLEAN : Interrupt(s, c)
    \/ \E s \in Sessions, c \in BOOLEAN : InterruptAuthSuccess(s, c)
    \/ \E s \in Sessions : AuthLoginPrompt(s)
    \/ \E s \in Sessions : AuthSuccess(s)
    \/ \E s \in Sessions : AuthError(s)
    \/ \E s \in Sessions : AuthLoggedIn(s)
    \/ \E s \in Sessions : TradingSection(s)
    \/ \E s \in Sessions : FetchOk(s)
    \/ \E s \in Sessions : FetchError(s)
    \/ \E s \in Sessions : Classify(s)
    \/ \E s \in Sessions : CreateTable(s)
    \/ \E s \in Sessions : CreateTableError(s)
    \/ \E s \in Sessions, t \in Timestamps : InsertRow(s, t)
    \/ \E s \in Sessions : InsertError(s)
    \/ \E s \in Sessions : ShowSignal(s)
    \/ \E s \in Sessions : ReadHistory(s)
    \/ \E s \in Sessions : HistoryError(s)
    \/ \E s \in Sessions : DrawHistory(s)

Spec == Init /\ [][Next]_vars

(* check_conditions on its own: line 149 applied, in the first session, to *)
(* every DataFrame of at most MaxRows rows, whatever the prices in them.   *)
InitClassify ==
    /\ pc = [s \in Sessions |-> IF s = 1 THEN "classify" ELSE "auth"]
    /\ token = [s \in Sessions |-> s = 1]
    /\ reqToken = [s \in Sessions |-> FALSE]
    /\ clicked = [s \in Sessions |-> s = 1]
    /\ buttonRendered = [s \in Sessions |-> s = 1]
    /\ \E d \in Frames : df = [s \in Sessions |-> IF s = 1 THEN d ELSE EmptyFrame]
    /\ signal = [s \in Sessions |-> None]
    /\ messages = [s \in Sessions |-> IF s = 1 THEN <<LoggedInNote>> ELSE <<>>]
    /\ history_df = [s \in Sessions |-> <<>>]
    /\ history = [s \in Sessions |-> <<>>]
    /\ tableExists = FALSE
    /\ log = <<>>

NextClassify == \E s \in Sessions : Classify(s)

SpecClassify == InitClassify /\ [][NextClassify]_vars

-----------------------------------------------------------------------------
(* The classifier's contract: rules 1-8 of the specification.              *)

\* rule n of the specification holds of frame d
RuleHolds(n, d) ==
    IF d = EmptyFrame THEN n = 1
    ELSE LET o == d[1].open
             h == d[1].high
             l == d[1].low
             p == d[Len(d)].close
         IN  CASE n = 1 -> FALSE
               [] n = 2 -> o = l /\ p = o
               [] n = 3 -> o = l
               [] n = 4 -> p = h
               [] n = 5 -> o = h
               [] n = 6 -> p = o /\ o = h
               [] n = 7 -> l = p
               [] n = 8 -> TRUE

RuleLabel(n) ==
    CASE n = 1 -> "No Data"
      [] n \in {2, 3, 7} -> "BUY"
      [] n \in {4, 5, 6} -> "SELL"
      [] n = 8 -> "HOLD"

\* first match wins
FirstRule(d) ==
    CHOOSE n \in 1..8 : RuleHolds(n, d) /\ \A m \in 1..(n - 1) : ~RuleHolds(m, d)

\* line 149 has run on df[s]
Classified(s) == pc[s] = "record"

\* C1: check_conditions returns one label of {BUY, SELL, HOLD, "No Data"}, the
\* label of the first of rules 1-8, taken in order, that holds of its input
C1_LabelOfFirstRule ==
    \A s \in Sessions :
        Classified(s) => /\ signal[s] \in Labels
                         /\ signal[s] = RuleLabel(FirstRule(df[s]))

\* a two-row frame classified by rule 7, on the close of its last row
C1_Witness ==
    \E s \in Sessions :
        /\ Classified(s)
        /\ Len(df[s]) = 2
        /\ df[s][1].close # df[s][2].close
        /\ FirstRule(df[s]) = 7
        /\ signal[s] = "BUY"

\* C2: open == low and previous-close == open give BUY, whatever high and close
C2_OpenLowPrevOpenIsBuy ==
    \A s \in Sessions :
        (/\ Classified(s)
         /\ df[s] # EmptyFrame
         /\ open_price(df[s]) = low_price(df[s])
         /\ prev_close(df[s]) = open_price(df[s])) => signal[s] = "BUY"

\* such a candle on which the SELL conditions hold as well
C2_Witness ==
    \E s \in Sessions :
        /\ Classified(s)
        /\ df[s] # EmptyFrame
        /\ open_price(df[s]) = low_price(df[s])
        /\ prev_close(df[s]) = open_price(df[s])
        /\ open_price(df[s]) = high_price(df[s])
        /\ signal[s] = "BUY"

\* C3: previous-close == high and open != low give SELL, also when
\* low == previous-close
C3_PrevHighIsSell ==
    \A s \in Sessions :
        (/\ Classified(s)
         /\ df[s] # EmptyFrame
         /\ prev_close(df[s]) = high_price(df[s])
         /\ open_price(df[s]) # low_price(df[s])) => signal[s] = "SELL"

\* such a frame on which low == previous-close holds as well
C3_Witness ==
    \E s \in Sessions :
        /\ Classified(s)
        /\ df[s] # EmptyFrame
        /\ prev_close(df[s]) = high_price(df[s])
        /\ open_price(df[s]) # low_price(df[s])
        /\ low_price(df[s]) = prev_close(df[s])
        /\ signal[s] = "SELL"

\* C4: with no candle data check_conditions returns "No Data", by the return of
\* line 102, before any row is read, and none of BUY, SELL, HOLD
C4_EmptyIsNoData ==
    \A s \in Sessions :
        (Classified(s) /\ df[s] = EmptyFrame) =>
            /\ signal[s] = "No Data"
            /\ signal[s] \notin {"BUY", "SELL", "HOLD"}

C4_Witness ==
    \E s \in Sessions :
        Classified(s) /\ df[s] = EmptyFrame /\ signal[s] = "No Data"

\* C9: no input leaves check_conditions by the return of line 119; where the
\* condition of line 118 holds, an earlier branch has matched
C9_Line119Unreachable ==
    \A s \in Sessions :
        Classified(s) =>
            /\ ReturnLine(df[s]) # 119
            /\ (/\ df[s] # EmptyFrame
                /\ prev_close(df[s]) = open_price(df[s])
                /\ open_price(df[s]) = high_price(df[s]))
               => ReturnLine(df[s]) \in {111, 113, 115, 117}

\* the condition of line 118 holds and open != low: line 115 has answered
C9_Witness ==
    \E s \in Sessions :
        /\ Classified(s)
        /\ df[s] # EmptyFrame
        /\ prev_close(df[s]) = open_price(df[s])
        /\ open_price(df[s]) = high_price(df[s])
        /\ open_price(df[s]) # low_price(df[s])
        /\ signal[s] = "SELL"

-----------------------------------------------------------------------------
(* The signal log and the Check Signal handler.                            *)

\* rows is old with exactly one row, labelled l, added at the end
AppendedOne(old, rows, l) ==
    \E t \in Timestamps : rows = Append(old, Row(t, l))

\* record_signal of session s returned: the step from line 150 to line 151
RecordReturned(s) == pc[s] = "insert" /\ pc'[s] = "show"

\* record_signal of session s raised: the script has left line 150, to stop
\* with the exception on the page or to start again for a widget interaction
RecordRaised(s) == pc[s] \in {"record", "insert"} /\ pc'[s] \in {"idle", "auth"}

\* the number of "Signal: ..." messages on the page of session s
SignalsShown(s) ==
    Cardinality({i \in 1..Len(messages[s]) : messages[s][i].text = "Signal"})

\* the positions of the Check Signal handler, lines 147-151
InHandler(s) == pc[s] \in {"fetch", "classify", "record", "insert", "show"}

\* the handler of session s is left for a new run of the script
Stopped(s) == InHandler(s) /\ pc'[s] = "auth"

\* s is a prefix of t
IsPrefix(s, t) == Len(s) <= Len(t) /\ s = SubSeq(t, 1, Len(s))

\* C5: the log starts empty; every record_signal that returns leaves the
\* earlier rows as they are and adds its row once, at the end; nothing else
\* changes the log; what a session reads at line 156 is the log, in that
\* order, and what it draws at line 158 is what it has read; both stay the
\* log for as long as no other session appends, and are its first rows after
C5_AppendOnlyInOrder ==
    /\ log = <<>>
    /\ [][\A s \in Sessions :
            RecordReturned(s) => AppendedOne(log, log', signal[s])]_vars
    /\ [][log' # log => \E s \in Sessions : RecordReturned(s)]_vars
    /\ [][\A s \in Sessions :
            history_df'[s] # history_df[s] =>
                (history_df'[s] = <<>> \/ history_df'[s] = <<log>>)]_vars
    /\ [][\A s \in Sessions :
            history'[s] # history[s] =>
                (history'[s] = <<>> \/ history'[s] = history_df[s])]_vars
    /\ [][\A s \in Sessions :
            (/\ log' # log
             /\ \/ history_df[s] = <<log>> /\ history_df'[s] # <<>>
                \/ history[s] = <<log>> /\ history'[s] # <<>>)
            => \E u \in Sessions \ {s} : RecordReturned(u)]_vars
    /\ [](\A s \in Sessions :
            /\ history_df[s] # <<>> => IsPrefix(history_df[s][1], log)
            /\ history[s] # <<>> => IsPrefix(history[s][1], log))

\* two different records appended by one session and read back by it
C5_Witness ==
    \E s \in Sessions :
        /\ pc[s] = "idle"
        /\ Len(log) = 2
        /\ log[1] # log[2]
        /\ history[s] = <<log>>

\* C6, as stated: once the fetch of a Check Signal action has failed, the
\* action leaves the log as it is
C6_FetchFailureLeavesLog ==
    [][\A s \in Sessions :
         (Shown(s, FetchErrorMsg) /\ pc[s] = "insert" /\ pc'[s] # "insert")
         => log' = log]_vars

\* C6, amended: when the fetch fails and its error is shown, the handler goes
\* on with an empty frame: the label is "No Data", the row record_signal adds
\* is a "No Data" row, and the label shown at line 151 is "No Data"
C6_FetchFailureRecordsNoData ==
    /\ [][\A s \in Sessions :
            (pc[s] = "fetch" /\ messages'[s] = Append(messages[s], FetchErrorMsg))
            => (pc'[s] = "classify" /\ df'[s] = EmptyFrame /\ log' = log)]_vars
    /\ [](\A s \in Sessions :
            (Shown(s, FetchErrorMsg)
             /\ pc[s] \in {"record", "insert", "show", "history", "draw"})
            => signal[s] = "No Data")
    /\ [][\A s \in Sessions :
            (Shown(s, FetchErrorMsg) /\ RecordReturned(s))
            => AppendedOne(log, log', "No Data")]_vars
    /\ [](\A s \in Sessions :
            (Shown(s, FetchErrorMsg) /\ pc[s] \in {"history", "draw"})
            => Shown(s, SignalMsg("No Data")))

\* a failed fetch whose "No Data" row is in the log and on the page
C6_Witness ==
    \E s \in Sessions :
        /\ pc[s] = "history"
        /\ Shown(s, FetchErrorMsg)
        /\ Shown(s, SignalMsg("No Data"))
        /\ log # <<>>
        /\ log[Len(log)].signal = "No Data"

\* C7, as stated, for its last two steps: once record_signal has appended the
\* row of a Check Signal action, the action goes on to display the label
C7_AppendThenDisplay ==
    [][\A s \in Sessions :
         (pc[s] = "show" /\ pc'[s] # "show")
         => /\ pc'[s] = "history"
            /\ messages'[s] = Append(messages[s], SignalMsg(signal[s]))]_vars

\* C7, amended: every Check Signal action takes the steps fetch, classify,
\* append, display in that order and can end after any of them: at line 147
\* (or 97) and at line 151 for a widget interaction, at line 150 when
\* record_signal raises. It adds at most one row and shows at most one label;
\* the row carries the label of check_conditions; a label is shown only after
\* its row was added, so an action can leave a row without a label on the
\* page and never a label without a row. An action that comes to the end of
\* the handler has added one row and shown one label, the same.
C7_OneLabelOneRecord ==
    /\ [][\A s \in Sessions :
            /\ pc[s] = "fetch" => pc'[s] \in {"fetch", "classify", "auth"}
            /\ pc[s] = "classify" => pc'[s] \in {"classify", "record"}
            /\ pc[s] = "record" => pc'[s] \in {"record", "insert", "idle", "auth"}
            /\ pc[s] = "insert" => pc'[s] \in {"insert", "show", "idle", "auth"}
            /\ pc[s] = "show" => pc'[s] \in {"show", "history", "auth"}]_vars
    /\ [][\A s \in Sessions :
            (pc[s] = "fetch" /\ pc'[s] = "classify")
            => (log' = log /\ signal'[s] = None)]_vars
    /\ [][\A s \in Sessions :
            (pc[s] = "classify" /\ pc'[s] = "record")
            => (/\ signal'[s] = check_conditions(df[s])
                /\ signal'[s] \in Labels
                /\ log' = log)]_vars
    /\ [][\A s \in Sessions :
            RecordReturned(s)
            => (/\ AppendedOne(log, log', signal[s])
                /\ signal'[s] = signal[s]
                /\ messages'[s] = messages[s])]_vars
    /\ [][\A s \in Sessions :
            (pc[s] = "show" /\ pc'[s] = "history")
            => (/\ messages'[s] = Append(messages[s], SignalMsg(signal[s]))
                /\ log' = log)]_vars
    /\ [][\A s \in Sessions :
            (Stopped(s) \/ RecordRaised(s))
            => (SignalsShown(s)' = 0 /\ log' = log)]_vars
    /\ [][log' # log => \E s \in Sessions : RecordReturned(s)]_vars
    /\ [](\A s \in Sessions :
            InHandler(s) => (token[s] /\ clicked[s] /\ SignalsShown(s) = 0))
    /\ [](\A s \in Sessions :
            pc[s] = "show" => \E i \in 1..Len(log) : log[i].signal = signal[s])
    /\ [](\A s \in Sessions : SignalsShown(s) <= 1)
    /\ [](\A s \in Sessions : \A l \in Labels :
            Shown(s, SignalMsg(l)) => \E i \in 1..Len(log) : log[i].signal = l)
    /\ [](\A s \in Sessions :
            (pc[s] \in {"history", "draw"} /\ clicked[s])
            => /\ SignalsShown(s) = 1
               /\ Shown(s, SignalMsg(signal[s])))

\* the second Check Signal of a session has recorded and shown BUY
C7_Witness ==
    \E s \in Sessions :
        /\ pc[s] = "history"
        /\ clicked[s]
        /\ Len(log) = 2
        /\ log[2].signal = "BUY"
        /\ Shown(s, SignalMsg("BUY"))

SessionState(s) ==
    <<pc[s], token[s], reqToken[s], clicked[s], buttonRendered[s], df[s],
      signal[s], messages[s], history_df[s], history[s]>>

\* C10, as stated, for its second half: while a run of a session finds no
\* token in the session state, the log stays as it is
C10_NoTokenLogUnchanged ==
    [][\A s \in Sessions :
         (~token[s] /\ pc[s] = "trading") => log' = log]_vars

\* C10, amended: the log and its table change only in record_signal, run for a
\* click by a session that holds a token; no step of a session without a token
\* changes them, and such a session never enters the Trading Signals section.
\* While it is open, the log changes only by the steps of other sessions.
C10_NoTokenNoAppend ==
    /\ [][(log' # log \/ tableExists' # tableExists)
            => \E s \in Sessions :
                 /\ token[s] /\ clicked[s]
                 /\ pc[s] \in {"record", "insert"}
                 /\ pc'[s] # pc[s]]_vars
    /\ [](\A s \in Sessions :
            ~token[s] => (pc[s] \in {"idle", "auth", "trading"} /\ ~buttonRendered[s]))
    /\ [][\A s \in Sessions :
            (~token[s] /\ SessionState(s)' # SessionState(s))
            => (log' = log /\ tableExists' = tableExists)]_vars

\* a session whose token generation failed, beside a session with a token
\* that has appended a row
C10_Witness ==
    \E s \in Sessions : \E u \in Sessions :
        /\ pc[s] = "idle"
        /\ ~token[s]
        /\ Shown(s, AuthErrorMsg)
        /\ pc[u] = "show"
        /\ log # <<>>

====
